---- MODULE Spec2Model ----
(***************************************************************************)
(* Model of src/src/sys/fanotify.rs: the fanotify channel `Fanotify`, its  *)
(* event decoder `read_events` and its permission-response encoder        *)
(* `respond`.                                                              *)
(*                                                                         *)
(* Bytes are naturals in 0..255.  A 64-bit mask is the set of its set bit  *)
(* positions (0..63).  A usize/u32 quantity is a record [hi, lo] standing   *)
(* for hi * 2^24 + lo, so that every u32 the decoder can read from the     *)
(* buffer is represented exactly.  The target is taken to have a 64-bit    *)
(* usize, so offset + event_len never wraps.                               *)
(***************************************************************************)
EXTENDS Integers, Sequences, FiniteSets, TLC

VARIABLES
    Endian,           \* native byte order of the build: "le" or "be"
    overflow_checks,  \* TRUE: arithmetic overflow panics (debug); FALSE: it wraps
    pc,               \* position of the single caller of the channel
    buffer,           \* read_events: the bytes the read stored at buffer[0..nread)
    nread,            \* read_events: the number of bytes the read returned
    offset,           \* read_events: the decoder's cursor (a usize)
    events,           \* read_events: the Vec<FanotifyEvent> built so far / returned
    decoded,          \* for each element of events, the header it was built from
                      \* and the offset that header was read at
    result,           \* what the last call returned: "none" while it runs, "Ok",
                      \* "ErrIo" (the descriptor's error) or "ErrWriteZero"
    closed,           \* descriptors closed by dropping the events Vec during a panic
    recs,             \* the records the kernel put into the buffer of this read
    tail,             \* bytes in the buffer after the last record the kernel wrote
    response,         \* respond: the FanotifyResponse argument
    response_bytes,   \* respond: the Vec<u8> handed to write_all
    wbuf,             \* respond: the part of response_bytes write_all has not written
    written,          \* respond: the bytes the descriptor has accepted, in order
    eintr,            \* respond: number of interrupted writes in this call
    writes            \* respond: number of writes that accepted bytes in this call

vars == <<Endian, overflow_checks, pc, buffer, nread, offset, events, decoded,
          result, closed, recs, tail, response, response_bytes, wbuf, written, eintr,
          writes>>

readVars == <<buffer, nread, offset, events, decoded, closed, recs, tail>>
writeVars == <<response, response_bytes, wbuf, written, eintr, writes>>

----------------------------------------------------------------------------
(* Bounds of the model *)

MaxRecords == 2
MaxExtraEvents == 1
MaxEintr == 1

(* The decoder loop is cut off once it has built this many events, and     *)
(* after MaxExtraEvents headers read outside the buffer.  A buffer of k     *)
(* whole records needs k events and no such read, so the cut never affects  *)
(* it.                                                                      *)
MaxEvents == MaxRecords + MaxExtraEvents

----------------------------------------------------------------------------
(* Program and kernel constants *)

BUFFER_SIZE == 4096
header_size == 24
FAN_NOFD == -1
FAN_ALLOW == 1
FAN_DENY == 2
FANOTIFY_METADATA_VERSION == 3

(* struct fanotify_event_metadata: offsets of the fields the decoder uses   *)
(* (event_len u32, vers u8, reserved u8, metadata_len u16, mask u64,        *)
(* fd i32, pid i32)                                                         *)
OFF_EVENT_LEN == 0
OFF_MASK == 8
OFF_FD == 16
OFF_PID == 20

(* MaskFlags: each flag is the set of bit positions of its libc constant *)
FAN_ACCESS == {0}
FAN_MODIFY == {1}
FAN_CLOSE_WRITE == {3}
FAN_CLOSE_NOWRITE == {4}
FAN_OPEN == {5}
FAN_Q_OVERFLOW == {14}
FAN_OPEN_PERM == {16}
FAN_ACCESS_PERM == {17}
FAN_ONDIR == {30}
FAN_EVENT_ON_CHILD == {27}
FAN_CLOSE == {3, 4}

MaskFlagsDefined ==
    {FAN_ACCESS, FAN_MODIFY, FAN_CLOSE_WRITE, FAN_CLOSE_NOWRITE, FAN_OPEN,
     FAN_Q_OVERFLOW, FAN_OPEN_PERM, FAN_ACCESS_PERM, FAN_ONDIR,
     FAN_EVENT_ON_CHILD, FAN_CLOSE}

(* MaskFlags::all() *)
MaskFlagsAll == UNION MaskFlagsDefined

----------------------------------------------------------------------------
(* Byte-level encodings *)

RECURSIVE SetSum(_)
SetSum(S) == IF S = {} THEN 0
             ELSE LET x == CHOOSE y \in S : TRUE IN x + SetSum(S \ {x})

Reverse(s) == [j \in 1..Len(s) |-> s[Len(s) + 1 - j]]

(* Memory order <-> little-endian order of one multi-byte field, for the   *)
(* byte order of the build.  Used by to_ne_bytes and by the field reads of  *)
(* read_unaligned.                                                          *)
Native(s) == IF Endian = "le" THEN s ELSE Reverse(s)

(* Little-endian bytes of a natural below 2^31 *)
NatLE(x, n) == [j \in 1..n |-> (x \div (256 ^ (j - 1))) % 256]

(* Little-endian two's complement bytes of a signed 32-bit integer *)
I32LE(x) == IF x >= 0 THEN NatLE(x, 4)
            ELSE [j \in 1..4 |-> 255 - NatLE(-x - 1, 4)[j]]

(* Little-endian bytes of a 64-bit mask given as its set of bit positions *)
MaskLE(bits) ==
    [j \in 1..8 |-> SetSum({2 ^ (b - 8 * (j - 1)) :
                              b \in {x \in bits : x \div 8 = j - 1}})]

(* i32::to_ne_bytes, u32::to_ne_bytes *)
I32ToNeBytes(x) == Native(I32LE(x))
U32ToNeBytes(x) == Native(NatLE(x, 4))

(* The value of 4 little-endian bytes read as i32 *)
I32FromLE(b) ==
    IF b[4] < 128
    THEN b[1] + 256 * b[2] + 65536 * b[3] + 16777216 * b[4]
    ELSE -((255 - b[1]) + 256 * (255 - b[2]) + 65536 * (255 - b[3])
           + 16777216 * (255 - b[4])) - 1

(* The value of 4 little-endian bytes read as u32, as hi * 2^24 + lo *)
U32FromLE(b) == [hi |-> b[4], lo |-> b[1] + 256 * b[2] + 65536 * b[3]]

(* The bit positions set in 8 little-endian bytes read as u64 *)
U64BitsFromLE(b) == {x \in 0..63 : (b[(x \div 8) + 1] \div (2 ^ (x % 8))) % 2 = 1}

(* usize arithmetic on [hi, lo] *)
USize(n) == [hi |-> 0, lo |-> n]
USizeAdd(a, b) == [hi |-> a.hi + b.hi + ((a.lo + b.lo) \div 16777216),
                   lo |-> (a.lo + b.lo) % 16777216]
USizeLeq(a, n) == a.hi = 0 /\ a.lo <= n

----------------------------------------------------------------------------
(* The kernel side of the read direction: what one read can deliver *)

(* What a record can carry: mask bits (bits 2 and 40 are not MaskFlags),    *)
(* descriptor and pid.                                                      *)
Payloads ==
    { [mask |-> {5},            fd |-> 0,   pid |-> 300],
      [mask |-> {0, 2, 14, 40}, fd |-> 258, pid |-> 77],
      [mask |-> {3, 4, 16},     fd |-> -1,  pid |-> 1] }

(* Bytes that follow the header inside the record, and the declared total   *)
(* length.  The first two shapes are whole records; the others are corrupt. *)
LenShapes ==
    { [pad |-> 0, event_len |-> 24],
      [pad |-> 8, event_len |-> 32],
      [pad |-> 0, event_len |-> 0],
      [pad |-> 8, event_len |-> 48],
      [pad |-> 0, event_len |-> 5000] }

RecordInputs ==
    { [mask |-> p.mask, fd |-> p.fd, pid |-> p.pid,
       pad |-> l.pad, event_len |-> l.event_len] : p \in Payloads, l \in LenShapes }

Tails == {0, 23}

(* One record as the kernel lays it out in native byte order; the bytes     *)
(* after the header are 17 each, the bytes after the last record 1 each.    *)
HeaderBytes(r) ==
    U32ToNeBytes(r.event_len)
    \o <<FANOTIFY_METADATA_VERSION, 0>>
    \o Native(NatLE(header_size, 2))
    \o Native(MaskLE(r.mask))
    \o I32ToNeBytes(r.fd)
    \o I32ToNeBytes(r.pid)

RecordBytes(r) == HeaderBytes(r) \o [j \in 1..r.pad |-> 17]

RECURSIVE Stream(_, _)
Stream(rs, t) ==
    IF rs = <<>> THEN [j \in 1..t |-> 1]
    ELSE RecordBytes(Head(rs)) \o Stream(Tail(rs), t)

(* k whole records and nothing else: every declared length is the record's  *)
(* real length (so >= header_size) and the lengths sum to the bytes read.   *)
WellFormed(rs, t) ==
    /\ t = 0
    /\ \A i \in 1..Len(rs) : rs[i].event_len = header_size + rs[i].pad

----------------------------------------------------------------------------
(* FanotifyEvent and MaskFlags *)

None == <<"None">>
Some(fd) == <<"Some", fd>>

from_bits_retain(bits) == bits

(* MaskFlags::from_bits_truncate *)
from_bits_truncate(bits) == bits \cap MaskFlagsAll

(* MaskFlags::contains *)
contains(mask, flag) == flag \subseteq mask

overflowedBoth(e) == e.file = None /\ contains(e.mask, FAN_Q_OVERFLOW)

(* FanotifyEvent::overflowed *)
overflowed(e) == e.file = None \/ contains(e.mask, FAN_Q_OVERFLOW)

FileOfUnchecked(fd) == Some(fd)

(* The match on event.fd that builds the Option<File> *)
FileOf(fd) == IF fd /= FAN_NOFD THEN Some(fd) ELSE None

----------------------------------------------------------------------------
(* read_events: the decoder *)

(* The stack buffer [0u8; 4096] after the read: zero beyond the bytes read *)
BufAt(i) == IF i < nread THEN buffer[i + 1] ELSE 0

(* n bytes of the buffer from byte position p, least significant first *)
FieldLE(p, n) == Native([j \in 1..n |-> BufAt(p + j - 1)])

(* (buffer.as_ptr().add(off) as *const fanotify_event_metadata).read_unaligned() *)
ReadUnaligned(off) ==
    [event_len |-> U32FromLE(FieldLE(off + OFF_EVENT_LEN, 4)),
     mask      |-> U64BitsFromLE(FieldLE(off + OFF_MASK, 8)),
     fd        |-> I32FromLE(FieldLE(off + OFF_FD, 4)),
     pid       |-> I32FromLE(FieldLE(off + OFF_PID, 4))]

(* The FanotifyEvent pushed for one header *)
EventOf(h) ==
    [mask |-> from_bits_truncate(h.mask), file |-> FileOf(h.fd), pid |-> h.pid]

AdvanceByHeaderSize(off, h) == USizeAdd(off, USize(header_size))

(* The offset after one record: offset += event.event_len as usize *)
Advance(off, h) == USizeAdd(off, h.event_len)

(* nread - offset is below zero: the usize subtraction overflows *)
Underflows(n, off) == ~USizeLeq(off, n)

(* (nread - offset) >= header_size, when the subtraction does not overflow *)
Remaining(n, off) == n - off.lo
HeaderFitsAnyByte(n, off) == Remaining(n, off) > 0
HeaderFits(n, off) == Remaining(n, off) >= header_size

(* The header read at off lies inside the 4096-byte buffer *)
InBuffer(off) == off.hi = 0 /\ off.lo + header_size <= BUFFER_SIZE

(* The headers among ds that were read outside the buffer *)
OutOfBoundsReads(ds) == {i \in 1..Len(ds) : ~InBuffer(ds[i].at)}

CallPoints == {"idle"}

(* The loop test `(nread - offset) >= header_size`.  When the subtraction   *)
(* overflows, a build with overflow checks panics (LoopPanics); a build     *)
(* without them wraps to 2^64 - (offset - nread), which is >= header_size.  *)
LoopPanics(n, off) == Underflows(n, off) /\ overflow_checks
LoopCond(n, off) ==
    IF Underflows(n, off) THEN ~overflow_checks ELSE HeaderFits(n, off)

(* What a header read from memory outside the buffer can hold *)
GarbageHeaders ==
    { [event_len |-> USize(0), mask |-> {}, fd |-> 0, pid |-> 0],
      [event_len |-> [hi |-> 255, lo |-> 16777215], mask |-> {14, 63},
       fd |-> -1, pid |-> -1] }

Init ==
    /\ Endian \in {"le", "be"}
    /\ overflow_checks \in BOOLEAN
    /\ pc = "idle"
    /\ buffer = <<>>
    /\ nread = 0
    /\ offset = USize(0)
    /\ events = <<>>
    /\ decoded = <<>>
    /\ result = "none"
    /\ closed = <<>>
    /\ recs = <<>>
    /\ tail = 0
    /\ response = [fd |-> 0, response |-> "FAN_ALLOW"]
    /\ response_bytes = <<>>
    /\ wbuf = <<>>
    /\ written = <<>>
    /\ eintr = 0
    /\ writes = 0

(* The locals of a call that is over no longer exist once it has returned;  *)
(* the Vec it returned has been moved to the caller.                        *)
ReadLocalsGone ==
    /\ recs' = <<>>
    /\ tail' = 0
    /\ buffer' = <<>>
    /\ nread' = 0
    /\ offset' = USize(0)
    /\ events' = <<>>
    /\ decoded' = <<>>
    /\ closed' = <<>>

WriteLocalsGone ==
    /\ response' = [fd |-> 0, response |-> "FAN_ALLOW"]
    /\ response_bytes' = <<>>
    /\ wbuf' = <<>>
    /\ written' = <<>>
    /\ eintr' = 0
    /\ writes' = 0

(* read_events up to the read: the read stores the kernel's records *)
ReadCall ==
    /\ pc \in CallPoints
    /\ \E k \in 0..MaxRecords :
         \E rs \in [1..k -> RecordInputs] :
           \E t \in Tails :
             LET bytes == Stream(rs, t) IN
               /\ recs' = rs
               /\ tail' = t
               /\ buffer' = bytes
               /\ nread' = Len(bytes)
    /\ offset' = USize(0)
    /\ events' = <<>>
    /\ decoded' = <<>>
    /\ closed' = <<>>
    /\ result' = "none"
    /\ pc' = "loop"
    /\ UNCHANGED <<Endian, overflow_checks, writeVars>>

(* read_events when the read fails: `?` returns the error *)
ReadFails ==
    /\ pc \in CallPoints
    /\ UNCHANGED readVars
    /\ result' = "ErrIo"
    /\ pc' = "returned"
    /\ UNCHANGED <<Endian, overflow_checks, writeVars>>

(* The loop test is false: Ok(events) *)
LoopExit ==
    /\ pc = "loop"
    /\ ~LoopPanics(nread, offset)
    /\ ~LoopCond(nread, offset)
    /\ result' = "Ok"
    /\ pc' = "returned"
    /\ UNCHANGED <<Endian, overflow_checks, readVars, writeVars>>

(* The loop test panics: unwinding drops the Vec, which closes every File *)
LoopPanic ==
    /\ pc = "loop"
    /\ LoopPanics(nread, offset)
    /\ closed' = [j \in 1..Len(events) |-> events[j].file]
    /\ events' = <<>>
    /\ pc' = "panicked"
    /\ UNCHANGED <<Endian, overflow_checks, buffer, nread, offset, decoded,
                   result, recs, tail, writeVars>>

(* One iteration of the loop body on a header inside the buffer *)
LoopBody ==
    /\ pc = "loop"
    /\ ~LoopPanics(nread, offset)
    /\ LoopCond(nread, offset)
    /\ InBuffer(offset)
    /\ Len(events) < MaxEvents
    /\ LET h == ReadUnaligned(offset.lo) IN
         /\ events' = Append(events, EventOf(h))
         /\ decoded' = Append(decoded, [at |-> offset, header |-> h])
         /\ offset' = Advance(offset, h)
    /\ UNCHANGED <<Endian, overflow_checks, pc, buffer, nread, result, closed,
                   recs, tail, writeVars>>

(* One iteration whose header read lies outside the buffer: the read is     *)
(* undefined behaviour; it yields some header ...                           *)
LoopBodyOutOfBounds ==
    /\ pc = "loop"
    /\ ~LoopPanics(nread, offset)
    /\ LoopCond(nread, offset)
    /\ ~InBuffer(offset)
    /\ Len(events) < MaxEvents
    /\ Cardinality(OutOfBoundsReads(decoded)) < MaxExtraEvents
    /\ \E h \in GarbageHeaders :
         /\ events' = Append(events, EventOf(h))
         /\ decoded' = Append(decoded, [at |-> offset, header |-> h])
         /\ offset' = Advance(offset, h)
    /\ UNCHANGED <<Endian, overflow_checks, pc, buffer, nread, result, closed,
                   recs, tail, writeVars>>

(* ... or the process is killed by the fault *)
LoopFault ==
    /\ pc = "loop"
    /\ ~LoopPanics(nread, offset)
    /\ LoopCond(nread, offset)
    /\ ~InBuffer(offset)
    /\ pc' = "faulted"
    /\ UNCHANGED <<Endian, overflow_checks, readVars, result, writeVars>>

----------------------------------------------------------------------------
(* respond: the encoder and write_all *)

ResponseFds == {0, 7, 258, -1, -2, 2147483647}
Verdicts == {"FAN_ALLOW", "FAN_DENY"}

(* response.response as u32 *)
ResponseCode(v) == IF v = "FAN_ALLOW" THEN FAN_ALLOW ELSE FAN_DENY

ResponseBytesCodeFirst(r) ==
    U32ToNeBytes(ResponseCode(r.response)) \o I32ToNeBytes(r.fd)

(* response_bytes after the append *)
ResponseBytes(r) == I32ToNeBytes(r.fd) \o U32ToNeBytes(ResponseCode(r.response))

RestIgnored(buf, n) == <<>>

(* write_all: the rest of the buffer after a write that accepted n bytes *)
RestAfterWrite(buf, n) == SubSeq(buf, n + 1, Len(buf))

(* write_all: nothing is left to write *)
WriteAllDone(buf) == buf = <<>>

RespondCall ==
    /\ pc \in CallPoints
    /\ \E fd \in ResponseFds, v \in Verdicts :
         /\ response' = [fd |-> fd, response |-> v]
         /\ response_bytes' = ResponseBytes([fd |-> fd, response |-> v])
         /\ wbuf' = ResponseBytes([fd |-> fd, response |-> v])
    /\ written' = <<>>
    /\ eintr' = 0
    /\ writes' = 0
    /\ result' = "none"
    /\ pc' = "writing"
    /\ UNCHANGED <<Endian, overflow_checks, readVars>>

(* write returns Ok(n), n > 0: possibly a short write *)
WriteSome ==
    /\ pc = "writing"
    /\ ~WriteAllDone(wbuf)
    /\ \E n \in 1..Len(wbuf) :
         /\ written' = written \o SubSeq(wbuf, 1, n)
         /\ wbuf' = RestAfterWrite(wbuf, n)
    /\ writes' = writes + 1
    /\ UNCHANGED <<Endian, overflow_checks, pc, result, readVars, response,
                   response_bytes, eintr>>

(* write returns Ok(0): write_all fails with WriteZero *)
WriteZero ==
    /\ pc = "writing"
    /\ ~WriteAllDone(wbuf)
    /\ result' = "ErrWriteZero"
    /\ pc' = "responded"
    /\ UNCHANGED <<Endian, overflow_checks, readVars, writeVars>>

(* write returns Err(Interrupted): write_all tries again *)
WriteInterrupted ==
    /\ pc = "writing"
    /\ ~WriteAllDone(wbuf)
    /\ eintr < MaxEintr
    /\ eintr' = eintr + 1
    /\ UNCHANGED <<Endian, overflow_checks, pc, result, readVars, response,
                   response_bytes, wbuf, written, writes>>

(* write returns any other error: write_all returns it *)
WriteError ==
    /\ pc = "writing"
    /\ ~WriteAllDone(wbuf)
    /\ result' = "ErrIo"
    /\ pc' = "responded"
    /\ UNCHANGED <<Endian, overflow_checks, readVars, writeVars>>

(* the buffer is empty: write_all returns Ok(()) *)
WriteAllOk ==
    /\ pc = "writing"
    /\ WriteAllDone(wbuf)
    /\ result' = "Ok"
    /\ pc' = "responded"
    /\ UNCHANGED <<Endian, overflow_checks, readVars, writeVars>>

(* The caller takes the result of read_events or respond; the channel can  *)
(* be used for the next call.                                               *)
CallReturns ==
    /\ pc \in {"returned", "responded"}
    /\ pc' = "idle"
    /\ result' = "none"
    /\ ReadLocalsGone
    /\ WriteLocalsGone
    /\ UNCHANGED <<Endian, overflow_checks>>

Next ==
    \/ ReadCall
    \/ ReadFails
    \/ LoopExit
    \/ LoopPanic
    \/ LoopBody
    \/ LoopBodyOutOfBounds
    \/ LoopFault
    \/ RespondCall
    \/ WriteSome
    \/ WriteZero
    \/ WriteInterrupted
    \/ WriteError
    \/ WriteAllOk
    \/ CallReturns

Spec == Init /\ [][Next]_vars

----------------------------------------------------------------------------
(* Properties *)

InRead == pc \in {"loop", "returned", "panicked", "faulted"} /\ result /= "ErrIo"
InRespond == pc \in {"writing", "responded"}

(* The bit positions of the flags MaskFlags declares *)
DefinedBits == {0, 1, 3, 4, 5, 14, 16, 17, 27, 30}

(* The sum of the declared lengths of the first n records *)
RECURSIVE DeclaredSum(_, _)
DeclaredSum(rs, n) == IF n = 0 THEN 0 ELSE rs[n].event_len + DeclaredSum(rs, n - 1)

(* The header decoded at index i declares length 0, or more than the bytes  *)
(* that remain from its offset.                                             *)
Corrupt(d) ==
    \/ d.header.event_len = USize(0)
    \/ ~USizeLeq(USizeAdd(d.at, d.header.event_len), nread)

(* C1: a buffer of k whole records (declared lengths >= header_size, summing *)
(* to the bytes read) decodes to exactly k events; the i-th event has the    *)
(* i-th record's mask restricted to the defined flags and its pid, and the   *)
(* i-th header is read at the sum of the declared lengths before it.         *)
C1_WholeRecordsDecodeInOrder ==
    (InRead /\ WellFormed(recs, tail)) =>
        /\ pc \in {"loop", "returned"}
        /\ nread = DeclaredSum(recs, Len(recs))
        /\ Len(events) <= Len(recs)
        /\ \A i \in 1..Len(events) :
             /\ events[i].mask = recs[i].mask \cap DefinedBits
             /\ events[i].pid = recs[i].pid
             /\ decoded[i].at = USize(DeclaredSum(recs, i - 1))
        /\ (pc = "returned" => result = "Ok" /\ Len(events) = Len(recs))

C1_Witness ==
    /\ pc = "returned"
    /\ result = "Ok"
    /\ WellFormed(recs, tail)
    /\ Len(recs) = 2
    /\ recs[1].pad > 0
    /\ Len(events) = 2
    /\ events[1].pid /= events[2].pid

(* C2: a record whose declared total length is 0 is not decoded again: it is *)
(* the last header the call decodes.                                         *)
C2_ZeroLengthEndsTheCall ==
    \A i \in 1..Len(decoded) :
        decoded[i].header.event_len = USize(0) => i = Len(decoded)

(* C3: the offset never moves past the bytes read, the subtraction           *)
(* nread - offset never overflows, and every header is read from inside      *)
(* [0, nread).                                                               *)
C3_DeclaredLengthBoundsChecked ==
    InRead =>
        /\ USizeLeq(offset, nread)
        /\ pc \notin {"panicked", "faulted"}
        /\ \A i \in 1..Len(decoded) :
             USizeLeq(USizeAdd(decoded[i].at, USize(header_size)), nread)

(* C4: respond returns Ok only when all 8 bytes have been written in order;  *)
(* while it writes, what the descriptor accepted followed by what is left    *)
(* is the response.                                                          *)
C4_NoSuccessAfterShortWrite ==
    InRespond =>
        /\ written \o wbuf = response_bytes
        /\ (result = "Ok" => written = response_bytes /\ Len(written) = 8)

C4_Witness ==
    /\ pc = "responded"
    /\ result = "Ok"
    /\ writes >= 3
    /\ eintr >= 1

(* C5: the bytes of a response are 8: the descriptor as a native-order i32,  *)
(* then FAN_ALLOW or FAN_DENY as a native-order u32.                         *)
C5_ResponseIsFdThenVerdict ==
    InRespond =>
        LET fdBytes == SubSeq(response_bytes, 1, 4)
            codeBytes == SubSeq(response_bytes, 5, 8)
            le(b) == IF Endian = "be" THEN Reverse(b) ELSE b
        IN /\ Len(response_bytes) = 8
           /\ \A j \in 1..8 : response_bytes[j] \in 0..255
           /\ I32FromLE(le(fdBytes)) = response.fd
           /\ U32FromLE(le(codeBytes)) =
                  [hi |-> 0, lo |-> IF response.response = "FAN_ALLOW" THEN 1 ELSE 2]

C5_Witness ==
    /\ pc = "responded"
    /\ result = "Ok"
    /\ response = [fd |-> -2, response |-> "FAN_DENY"]
    /\ written = IF Endian = "le" THEN <<254, 255, 255, 255, 2, 0, 0, 0>>
                                  ELSE <<255, 255, 255, 254, 0, 0, 0, 2>>

(* C6: an event's file is absent exactly when the descriptor field of its    *)
(* header is -1; otherwise it is a handle on exactly that descriptor.  For   *)
(* whole records the field is the descriptor the kernel put in the record.   *)
C6_FileAbsentIffNoFd ==
    \A i \in 1..Len(events) :
        /\ (events[i].file = None) <=> (decoded[i].header.fd = -1)
        /\ decoded[i].header.fd /= -1 => events[i].file = Some(decoded[i].header.fd)
        /\ (WellFormed(recs, tail) /\ i <= Len(recs)) =>
               decoded[i].header.fd = recs[i].fd

C6_Witness ==
    /\ pc = "returned"
    /\ WellFormed(recs, tail)
    /\ Len(events) = 2
    /\ events[1].file = None
    /\ events[2].file = Some(258)

(* C7: overflowed() is true of every event whose mask has the overflow bit   *)
(* (bit 14), with or without a file, and of every event without a file; it   *)
(* is false only of an event with a file and without the bit.                *)
C7_Overflowed ==
    \A i \in 1..Len(events) :
        /\ 14 \in events[i].mask => overflowed(events[i])
        /\ events[i].file = None => overflowed(events[i])
        /\ (events[i].file /= None /\ 14 \notin events[i].mask) => ~overflowed(events[i])
        /\ (WellFormed(recs, tail) /\ i <= Len(recs)) =>
               (overflowed(events[i]) <=> (14 \in recs[i].mask \/ recs[i].fd = -1))

C7_Witness ==
    /\ pc = "returned"
    /\ Len(events) = 2
    /\ events[1].file /= None /\ 14 \in events[1].mask /\ overflowed(events[1])
    /\ events[2].file = None /\ 14 \notin events[2].mask /\ overflowed(events[2])

(* C8: a read of fewer bytes than one header (0 included) returns Ok with no *)
(* events; no header is decoded and no handle is built.                      *)
C8_ShortReadIsEmpty ==
    (InRead /\ nread < header_size) =>
        /\ events = <<>>
        /\ decoded = <<>>
        /\ closed = <<>>
        /\ pc \in {"loop", "returned"}
        /\ (pc = "loop" => ENABLED LoopExit)
        /\ (pc = "returned" => result = "Ok")

C8_Witness ==
    /\ pc = "returned"
    /\ result = "Ok"
    /\ nread = 23
    /\ events = <<>>

(* C9: the event's mask is the header's mask bits that are defined flags, so *)
(* contains() of a defined flag is true exactly when the flag's bits are set *)
(* in the header's mask field; for whole records that field is the mask the  *)
(* kernel put in the record.                                                 *)
C9_UnknownMaskBitsDropped ==
    \A i \in 1..Len(events) :
        /\ events[i].mask = decoded[i].header.mask \cap DefinedBits
        /\ \A f \in MaskFlagsDefined :
               contains(events[i].mask, f) <=> (\A b \in f : b \in decoded[i].header.mask)
        /\ (WellFormed(recs, tail) /\ i <= Len(recs)) =>
               decoded[i].header.mask = recs[i].mask

C9_Witness ==
    /\ pc = "returned"
    /\ result = "Ok"
    /\ Len(events) >= 1
    /\ recs[1].mask = {0, 2, 14, 40}
    /\ events[1].mask = {0, 14}

(* C10: once a corrupt record has been decoded, no handle is built from the *)
(* rest of the buffer, and the call ends by returning the events built so    *)
(* far or by releasing every one of their handles.                           *)
C10_AbortKeepsEarlierHandles ==
    /\ \A i \in 1..Len(decoded) :
         Corrupt(decoded[i]) =>
             /\ \A j \in (i + 1)..Len(events) : events[j].file = None
             /\ pc /= "faulted"
    /\ (pc = "panicked" => Len(closed) = Len(decoded))

====
